---- MODULE Spec2Model ----
(***************************************************************************)
(* A model of the engineer agent: EngineerAgent (agent/core.py),           *)
(* ReasoningEngine (agent/reasoning.py), ToolRegistry (agent/tools.py),    *)
(* LogFetcher (agent/log_fetcher.py) and LinkExtractor (utils/parsers.py). *)
(* The program is single-threaded and synchronous: every public call is    *)
(* one atomic action, except ReasoningEngine.reason, whose loop is         *)
(* unrolled one iteration per action.  The outcomes of the outside world   *)
(* (the LLM API, FAISS, HTTP, subprocesses, tool functions) are inputs     *)
(* chosen with \E.                                                         *)
(***************************************************************************)
EXTENDS Integers, Sequences, FiniteSets, TLC

VARIABLES
    conversation_history,   \* EngineerAgent.conversation_history
    now,                    \* the clock _get_current_timestamp reads
    history_log,            \* ghost: entries handed to the history since the last clear
    last_call,              \* ghost: the most recent call on the agent and what it returned
    enable_log_analysis,    \* AgentConfig.enable_log_analysis
    enable_metric_query,    \* AgentConfig.enable_metric_query
    tools,                  \* ToolRegistry.tools: tool name -> the function registered
    tool_call,              \* ghost: the most recent call on the registry and its outcome
    fetch_settings,         \* whether the config carries request_timeout and max_log_size
    fetch_call,             \* ghost: the most recent call on the log fetcher and its outcome
    max_reasoning_steps,    \* AgentConfig.max_reasoning_steps
    rs                      \* the frame of ReasoningEngine.reason: its locals and where it is

agent_vars == <<conversation_history, now, history_log, last_call>>
tool_vars == <<enable_log_analysis, enable_metric_query, tools, tool_call>>
fetch_vars == <<fetch_settings, fetch_call>>
reason_vars == <<max_reasoning_steps, rs>>

vars == <<agent_vars, tool_vars, fetch_vars, reason_vars>>

-----------------------------------------------------------------------------
(* Bounds of the exploration *)

\* _update_conversation_history calls explored in one behaviour
MaxUpdates == 22
\* history updates since the last clear that may carry a query other than the first
MaxAltQueries == 1
\* the longest command line enumerated over Alphabet
MaxCmdLen == 3
\* the most words in a user input handed to the log fetcher
MaxTokens == 2
\* the largest max_reasoning_steps configured, besides the default
MaxConfigSteps == 3

-----------------------------------------------------------------------------
(* Values *)

None == "None"

Queries == {"q1", "q2"}
Responses == {"answer"}

\* the attributes the classes define; an access to any other name raises AttributeError
EngineerAgentAttrs ==
    {"config", "conversation_history", "llm_client", "knowledge_base",
     "tool_registry", "reasoning_engine", "log_fetcher", "chat",
     "_build_enhanced_context", "_summarize_fetched_data", "_analyze_fetched_logs",
     "_find_error_patterns", "_generate_recommendations", "_generate_response",
     "_build_response_prompt", "_update_conversation_history",
     "_get_current_timestamp", "add_knowledge", "get_conversation_history",
     "clear_conversation_history", "register_custom_tool"}

ReasoningEngineAttrs ==
    {"llm_client", "knowledge_base", "tool_registry", "config",
     "reason", "_build_system_prompt"}

\* exceptions: their class and what they are about
AttributeError(cls, name) == [type |-> "AttributeError", what |-> <<cls, name>>]
OutsideError(call) == [type |-> "RuntimeError", what |-> <<call>>]
TypeError(what) == [type |-> "TypeError", what |-> <<what>>]

\* the last n elements of s: the slice s[-n:] for n > 0
LastN(s, n) == IF Len(s) > n THEN SubSeq(s, Len(s) - n + 1, Len(s)) ELSE s

\* the first n elements of s: the slice s[:n]
FirstN(s, n) == IF Len(s) > n THEN SubSeq(s, 1, n) ELSE s

-----------------------------------------------------------------------------
(* EngineerAgent *)

\* the cap written into _update_conversation_history
HistoryCap == 20
\* the number of history entries _build_enhanced_context passes on
ContextTurns == 5

HistoryEntry(ts, query, response) ==
    [timestamp |-> ts, query |-> query, response |-> response]

update_keep_oldest(history, ts, query, response) ==
    LET h == Append(history, HistoryEntry(ts, query, response))
    IN  IF Len(h) > HistoryCap THEN FirstN(h, HistoryCap) ELSE h

_update_conversation_history(history, ts, query, response) ==
    LET h == Append(history, HistoryEntry(ts, query, response))
    IN  IF Len(h) > HistoryCap THEN LastN(h, HistoryCap) ELSE h

\* what fetch_from_user_input handed back, as seen by chat: a list of fetch results
FetchedLogsSamples ==
    { <<>>,
      <<[source_link |-> "http://a/s", fetch_success |-> FALSE]>> }

CountWhere(s, ok) == Cardinality({i \in 1..Len(s) : s[i].fetch_success = ok})

_summarize_fetched_data(fetched_logs) ==
    [total_sources |-> Len(fetched_logs),
     successful_fetches |-> CountWhere(fetched_logs, TRUE),
     failed_fetches |-> CountWhere(fetched_logs, FALSE)]

_build_enhanced_context(history, query, base_context, fetched_logs) ==
    [original_query |-> query,
     base_context |-> base_context,
     fetched_data_summary |-> _summarize_fetched_data(fetched_logs),
     has_log_analysis |-> fetched_logs # <<>>,
     conversation_history |-> LastN(history, ContextTurns)]

\* the outcome of a block of code: it raised e, or it ran through to value v
Raised(e, history) == [raised |-> TRUE, error |-> e, history |-> history, updates |-> <<>>]
Returned(v, history, updates) ==
    [raised |-> FALSE, value |-> v, history |-> history, updates |-> updates]

\* The environment of one chat call: the outside call that raises, if one does
\* (the calls after it are never made), and what the others hand back.
OutsideCalls == {"fetch", "search", "llm"}

ChatEnvs ==
    [raises : OutsideCalls \cup {None},
     fetched_logs : FetchedLogsSamples, llm_response : Responses]

EnvAllWork(env) == env.raises = None

\* _generate_response: reads self.llm, which EngineerAgent never sets
_generate_response(env) ==
    IF "llm" \notin EngineerAgentAttrs
    THEN [raised |-> TRUE, error |-> AttributeError("EngineerAgent", "llm")]
    ELSE IF env.raises = "llm"
    THEN [raised |-> TRUE, error |-> OutsideError("llm")]
    ELSE [raised |-> FALSE, value |-> env.llm_response]

\* the body of chat's try block, steps 1 to 6
chat_try(history, ts, query, base_context, env) ==
    IF env.raises = "fetch" THEN Raised(OutsideError("fetch"), history)
    ELSE
    LET fetched_logs == env.fetched_logs
        enhanced_context ==
            _build_enhanced_context(history, query, base_context, fetched_logs)
    IN
    IF env.raises = "search" THEN Raised(OutsideError("search"), history)
    ELSE
    LET relevant_knowledge == <<"doc">> IN
    IF "analyze_problem" \notin ReasoningEngineAttrs
    THEN Raised(AttributeError("ReasoningEngine", "analyze_problem"), history)
    ELSE
    LET reasoning_result == "reasoning"
        gen == _generate_response(env)
    IN
    IF gen.raised THEN Raised(gen.error, history)
    ELSE
    Returned([query |-> query,
              response |-> gen.value,
              fetched_logs |-> fetched_logs,
              context |-> enhanced_context,
              reasoning |-> reasoning_result,
              relevant_knowledge |-> relevant_knowledge],
             _update_conversation_history(history, ts, query, gen.value),
             <<HistoryEntry(ts, query, gen.value)>>)

Apology(e) == <<"apology", e>>

\* an except clause that names one class of exception only
except_only_attribute_errors(query, body) ==
    IF body.raised /\ body.error.type = "AttributeError"
    THEN Returned([query |-> query, error |-> body.error,
                   response |-> Apology(body.error)],
                  body.history, body.updates)
    ELSE body

\* chat's except clause: "except Exception" catches whatever the try block raised
chat_except(query, body) ==
    IF body.raised
    THEN Returned([query |-> query, error |-> body.error,
                   response |-> Apology(body.error)],
                  body.history, body.updates)
    ELSE body

-----------------------------------------------------------------------------
(* ToolRegistry *)

\* a command line is a sequence of characters
Alphabet == {"r", "m", "R", "M", " "}

LowerChar(c) ==
    CASE c = "R" -> "r" [] c = "M" -> "m" [] c = "D" -> "d" [] c = "E" -> "e"
      [] c = "L" -> "l" [] c = "F" -> "f" [] c = "O" -> "o" [] c = "T" -> "t"
      [] c = "S" -> "s" [] c = "B" -> "b" [] OTHER -> c

\* str.lower()
Lower(s) == [i \in 1..Len(s) |-> LowerChar(s[i])]

\* sub in s
Contains(sub, s) ==
    \E i \in 1..(Len(s) - Len(sub) + 1) : SubSeq(s, i, i + Len(sub) - 1) = sub

dangerous_commands ==
    << <<"r", "m">>,
       <<"d", "e", "l">>,
       <<"f", "o", "r", "m", "a", "t">>,
       <<"s", "h", "u", "t", "d", "o", "w", "n">>,
       <<"r", "e", "b", "o", "o", "t">> >>

\* a safety check that compares the command as typed
safety_check_case_sensitive(command) ==
    \E k \in 1..Len(dangerous_commands) : Contains(dangerous_commands[k], command)

\* any(cmd in command.lower() for cmd in dangerous_commands)
safety_check(command) ==
    \E k \in 1..Len(dangerous_commands) : Contains(dangerous_commands[k], Lower(command))

\* what subprocess.run does with a command it was given
SubprocessOutcomes == {"completed", "timeout", "oserror"}

\* a call's outcome: raised or returned, the tool functions it invoked and the
\* commands it handed to subprocess.run, in order
CallRaised(e, invoked, spawned) ==
    [raised |-> TRUE, error |-> e, invoked |-> invoked, spawned |-> spawned]
CallReturned(v, invoked, spawned) ==
    [raised |-> FALSE, value |-> v, invoked |-> invoked, spawned |-> spawned]

Refusal == [error |-> "refused: dangerous command"]

\* ToolRegistry.execute_command(command)
execute_command(command, sub) ==
    IF safety_check(command)
    THEN CallReturned(Refusal, <<>>, <<>>)
    ELSE CASE sub = "completed" ->
                CallReturned([stdout |-> "out", stderr |-> "", return_code |-> 0],
                             <<>>, <<command>>)
           [] sub = "timeout" ->
                CallReturned([error |-> "timeout"], <<>>, <<command>>)
           [] OTHER ->
                CallReturned([error |-> "failed"], <<>>, <<command>>)

\* the functions a tool name can be bound to
BuiltinTools == {"analyze_logs", "search_logs", "check_system_metrics", "execute_command"}
CustomFunctions == {"custom_fn"}

\* what the outside world does during one tool call: whether the tool function
\* raises, and what a subprocess does
ToolWorlds == [fn_raises : BOOLEAN, sub : SubprocessOutcomes]

\* self.tools[tool_name]["function"](**kwargs)
call_function(func, kwargs, world) ==
    IF func = "execute_command"
    THEN IF DOMAIN kwargs # {"command"}
         THEN CallRaised(TypeError("execute_command() arguments"), <<func>>, <<>>)
         ELSE LET r == execute_command(kwargs.command, world.sub)
              IN  CallReturned(r.value, <<func>>, r.spawned)
    ELSE IF world.fn_raises
         THEN CallRaised(OutsideError(func), <<func>>, <<>>)
         ELSE CallReturned([result_of |-> func], <<func>>, <<>>)

\* execute_tool with the membership test left out: the lookup raises KeyError
execute_tool_unchecked(registry, tool_name, kwargs, world) ==
    IF tool_name \notin DOMAIN registry
    THEN CallRaised([type |-> "KeyError", what |-> <<tool_name>>], <<>>, <<>>)
    ELSE LET r == call_function(registry[tool_name], kwargs, world)
         IN  IF r.raised
             THEN CallReturned([success |-> FALSE, error |-> r.error], r.invoked, r.spawned)
             ELSE CallReturned([success |-> TRUE, result |-> r.value], r.invoked, r.spawned)

\* ToolRegistry.execute_tool(tool_name, **kwargs)
execute_tool(registry, tool_name, kwargs, world) ==
    IF tool_name \notin DOMAIN registry
    THEN CallReturned([error |-> <<"no such tool", tool_name>>], <<>>, <<>>)
    ELSE LET r == call_function(registry[tool_name], kwargs, world)
         IN  IF r.raised
             THEN CallReturned([success |-> FALSE, error |-> r.error], r.invoked, r.spawned)
             ELSE CallReturned([success |-> TRUE, result |-> r.value], r.invoked, r.spawned)

\* ToolRegistry.register_tool(name, func, description)
register_tool(registry, name, func) ==
    [n \in DOMAIN registry \cup {name} |-> IF n = name THEN func ELSE registry[n]]

\* ToolRegistry._register_default_tools()
_register_default_tools(log_analysis, metric_query) ==
    LET names == (IF log_analysis THEN {"analyze_logs", "search_logs"} ELSE {})
                 \cup (IF metric_query THEN {"check_system_metrics"} ELSE {})
                 \cup {"execute_command"}
    IN  [n \in names |-> n]

\* command lines the LLM or a caller may pass
CommandSamples ==
    { <<"l", "s">>,
      <<"r", "m", " ", "x">>,
      <<"R", "M", " ", "x">>,
      <<"D", "e", "l", " ", "x">>,
      <<"f", "o", "r", "m", "a", "t", " ", "c", ":">>,
      <<"S", "h", "u", "t", "d", "o", "w", "n">>,
      <<"r", "e", "b", "o", "o", "t">>,
      <<"e", "c", "h", "o", " ", "f", "a", "r", "m">>,
      <<"u", "p", "t", "i", "m", "e">> }

\* every command line over Alphabet up to MaxCmdLen characters, and the samples
Commands == CommandSamples \cup UNION {[1..n -> Alphabet] : n \in 0..MaxCmdLen}

NoArgs == [x \in {} |-> None]
CommandArgs(c) == [command |-> c]

\* names a caller may ask for
ToolNames == BuiltinTools \cup {"custom_tool", "no_such_tool"}
KwargsSamples == {NoArgs} \cup {CommandArgs(c) : c \in CommandSamples}

ToolsInit ==
    /\ enable_log_analysis \in BOOLEAN
    /\ enable_metric_query \in BOOLEAN
    /\ tools = _register_default_tools(enable_log_analysis, enable_metric_query)
    /\ tool_call = [op |-> "__init__"]

\* the registry of AgentConfig's defaults
ToolsDefault ==
    /\ enable_log_analysis = TRUE
    /\ enable_metric_query = TRUE
    /\ tools = _register_default_tools(TRUE, TRUE)
    /\ tool_call = [op |-> "__init__"]

\* registry.register_tool(name, func, description)
RegisterTool ==
    \E name \in {"custom_tool", "execute_command"}, func \in CustomFunctions :
        /\ tools' = register_tool(tools, name, func)
        /\ tool_call' = [op |-> "register_tool"]
        /\ UNCHANGED <<enable_log_analysis, enable_metric_query>>

\* registry.execute_tool(tool_name, **kwargs)
ExecuteTool ==
    \E tool_name \in ToolNames, kwargs \in KwargsSamples, world \in ToolWorlds :
        /\ tool_call' = [op |-> "execute_tool", tool_name |-> tool_name,
                         kwargs |-> kwargs, world |-> world,
                         out |-> execute_tool(tools, tool_name, kwargs, world)]
        /\ UNCHANGED <<enable_log_analysis, enable_metric_query, tools>>

\* registry.execute_command(command)
ExecuteCommand ==
    \E command \in Commands, sub \in SubprocessOutcomes :
        /\ tool_call' = [op |-> "execute_command", command |-> command, sub |-> sub,
                         out |-> execute_command(command, sub)]
        /\ UNCHANGED <<enable_log_analysis, enable_metric_query, tools>>

-----------------------------------------------------------------------------
(* LLMClient.chat_completion and ReasoningEngine.reason *)

\* AgentConfig.max_reasoning_steps as shipped
DefaultMaxReasoningSteps == 10

\* Python values a response can be; the text of a string is kept as a tuple
Str(x) == [py |-> "str", s |-> x]
FunctionCall(name, arguments) ==
    [py |-> "dict", type |-> "function_call", name |-> name, arguments |-> arguments]
Unbound == [py |-> "unbound"]
NoValue == [py |-> "None"]

\* what the API hands back for one request: a message with content, a message
\* with a function call whose arguments are a JSON text, or an error
ArgumentTexts == {"{}", "{command: ls}", "{command: rm x}", "[1]", "{not json"}

ApiOutcomes ==
    {[kind |-> "content", content |-> <<"advice">>], [kind |-> "api_error"]}
    \cup {[kind |-> "function_call", name |-> n, arguments |-> a] :
            n \in {"execute_command", "check_system_metrics", "no_such_tool"},
            a \in ArgumentTexts}

\* json.loads on the arguments of a function call
json_loads(text) ==
    CASE text = "{}" -> [raised |-> FALSE, json |-> "object", kwargs |-> NoArgs]
      [] text = "{command: ls}" ->
            [raised |-> FALSE, json |-> "object", kwargs |-> CommandArgs(<<"l", "s">>)]
      [] text = "{command: rm x}" ->
            [raised |-> FALSE, json |-> "object",
             kwargs |-> CommandArgs(<<"r", "m", " ", "x">>)]
      [] text = "[1]" -> [raised |-> FALSE, json |-> "array"]
      [] OTHER -> [raised |-> TRUE]

LLMFailure(what) == Str(<<"LLM call failed", what>>)

\* LLMClient.chat_completion(messages, functions): it returns, whatever happens
chat_completion(api) ==
    CASE api.kind = "api_error" -> LLMFailure("api")
      [] api.kind = "function_call" ->
            LET parsed == json_loads(api.arguments)
            IN  IF parsed.raised THEN LLMFailure("json")
                ELSE FunctionCall(api.name, parsed)
      [] OTHER -> Str(api.content)

\* isinstance(response, dict) and response.get("type") == "function_call"
IsFunctionCall(response) == response.py = "dict" /\ response.type = "function_call"

IdleFrame ==
    [pc |-> "idle", step |-> 0, response |-> Unbound, n_messages |-> 0,
     reasoning_steps |-> <<>>, tool_result |-> NoValue,
     llm_calls |-> 0, tool_execs |-> 0,
     first_plain |-> Unbound, after_plain |-> 0, result |-> NoValue]

\* the return statement of reason
reason_return(f) ==
    IF f.response.py = "unbound"
    THEN [f EXCEPT !.pc = "raised",
                   !.result = [type |-> "UnboundLocalError", what |-> <<"response">>]]
    ELSE [f EXCEPT !.pc = "returned",
                   !.result = [n_reasoning_steps |-> Len(f.reasoning_steps),
                               final_response |->
                                   IF f.response.py = "str" THEN f.response
                                   ELSE Str(<<"reasoning done">>)]]

\* a loop bound that lets one more iteration through
loop_exhausted_late(step, max_steps) == step > max_steps

\* "for step in range(max_reasoning_steps)" has no value left
loop_exhausted(step, max_steps) == step >= max_steps

\* the end of one iteration that did not break
next_iteration(f, max_steps) ==
    LET g == [f EXCEPT !.step = @ + 1]
    IN  IF loop_exhausted(g.step, max_steps) THEN reason_return(g) ELSE g

\* an else branch that does not leave the loop
keep_looping(f, max_steps) == next_iteration(f, max_steps)

\* the else branch: break, and so the return statement
plain_response(f, max_steps) == reason_return(f)

\* one iteration of the loop of reason: the LLM call and what follows from it
reason_iteration(registry, max_steps, f, api, world) ==
    LET response == chat_completion(api)
        plain == ~IsFunctionCall(response)
        f1 == [f EXCEPT !.response = response,
                        !.llm_calls = @ + 1,
                        !.reasoning_steps = Append(@, <<"reasoning", f.step + 1>>),
                        !.after_plain = IF f.first_plain.py # "unbound" THEN @ + 1 ELSE @,
                        !.first_plain = IF @.py = "unbound" /\ plain THEN response ELSE @]
    IN  IF IsFunctionCall(response)
        THEN IF response.arguments.json # "object"
             THEN [f1 EXCEPT !.pc = "raised",
                             !.result = TypeError("argument after ** must be a mapping")]
             ELSE LET t == execute_tool(registry, response.name,
                                        response.arguments.kwargs, world)
                      f2 == [f1 EXCEPT !.tool_execs = @ + 1,
                                       !.tool_result = t,
                                       !.reasoning_steps =
                                           Append(@, <<"tool_execution", f.step + 1>>),
                                       !.n_messages = @ + 1,
                                       !.after_plain =
                                           IF f.first_plain.py # "unbound" THEN @ + 1 ELSE @]
                  IN  IF t.raised
                      THEN [f2 EXCEPT !.pc = "raised", !.result = t.error]
                      ELSE next_iteration(f2, max_steps)
        ELSE plain_response(f1, max_steps)

\* reason up to its loop: the knowledge search and the messages
reason_start(max_steps, n_history) ==
    LET f == [IdleFrame EXCEPT !.pc = "loop",
                               !.reasoning_steps = <<<<"knowledge_search", 0>>>>,
                               !.n_messages = n_history + 2]
    IN  IF loop_exhausted(0, max_steps) THEN reason_return(f) ELSE f

ReasonInit ==
    /\ max_reasoning_steps \in (0..MaxConfigSteps) \cup {DefaultMaxReasoningSteps}
    /\ rs = IdleFrame

ReasonDefault ==
    /\ max_reasoning_steps = DefaultMaxReasoningSteps
    /\ rs = IdleFrame

\* engine.reason(problem, conversation_history) is called
ReasonStart ==
    /\ rs.pc # "loop"
    /\ \E n_history \in 0..1 : rs' = reason_start(max_reasoning_steps, n_history)
    /\ UNCHANGED max_reasoning_steps

\* the loop of reason runs one iteration
ReasonIteration ==
    /\ rs.pc = "loop"
    /\ \E api \in ApiOutcomes, world \in ToolWorlds :
           rs' = reason_iteration(tools, max_reasoning_steps, rs, api, world)
    /\ UNCHANGED max_reasoning_steps

-----------------------------------------------------------------------------
(* LinkExtractor and LogFetcher *)

\* A user input is a sequence of words separated by single blanks.  No pattern of
\* LinkExtractor matches across white space, so the matches in a text are the
\* matches in its words, shifted by where the word starts.
Tokens == {"http://a/x.log", "http://b/y.log", "/var/log/app.log", "error"}

TokenLen(t) ==
    CASE t = "http://a/x.log" -> 14
      [] t = "http://b/y.log" -> 14
      [] t = "/var/log/app.log" -> 16
      [] OTHER -> 5

\* the order of LinkExtractor.patterns
PatternOrder == <<"http", "file", "ssh", "ftp", "log_path">>

\* re.finditer(patterns[type], token, re.IGNORECASE): the matches, left to right
TokenMatches(t, type) ==
    CASE t = "http://a/x.log" /\ type = "http" -> <<[url |-> "http://a/x.log", start |-> 0, len |-> 14]>>
      [] t = "http://a/x.log" /\ type = "file" -> <<[url |-> "p://a/x.log", start |-> 3, len |-> 11]>>
      [] t = "http://a/x.log" /\ type = "log_path" -> <<[url |-> ".log", start |-> 10, len |-> 4]>>
      [] t = "http://b/y.log" /\ type = "http" -> <<[url |-> "http://b/y.log", start |-> 0, len |-> 14]>>
      [] t = "http://b/y.log" /\ type = "file" -> <<[url |-> "p://b/y.log", start |-> 3, len |-> 11]>>
      [] t = "http://b/y.log" /\ type = "log_path" -> <<[url |-> ".log", start |-> 10, len |-> 4]>>
      [] t = "/var/log/app.log" /\ type = "file" -> <<[url |-> "/var/log/app.log", start |-> 0, len |-> 16]>>
      [] t = "/var/log/app.log" /\ type = "log_path" -> <<[url |-> "/var/log/app.log", start |-> 0, len |-> 16]>>
      [] OTHER -> <<>>

\* where word i of the text starts
RECURSIVE TokenStart(_, _)
TokenStart(text, i) ==
    IF i = 1 THEN 0 ELSE TokenStart(text, i - 1) + TokenLen(text[i - 1]) + 1

Shifted(ms, type, offset) ==
    [k \in 1..Len(ms) |-> [type |-> type, url |-> ms[k].url,
                            start |-> ms[k].start + offset,
                            end |-> ms[k].start + offset + ms[k].len]]

\* the matches of one pattern in the whole text, left to right
RECURSIVE MatchesOfType(_, _, _)
MatchesOfType(text, type, i) ==
    IF i > Len(text) THEN <<>>
    ELSE Shifted(TokenMatches(text[i], type), type, TokenStart(text, i))
         \o MatchesOfType(text, type, i + 1)

\* the links list before sorting: pattern by pattern
RECURSIVE RawLinks(_, _)
RawLinks(text, k) ==
    IF k > Len(PatternOrder) THEN <<>>
    ELSE MatchesOfType(text, PatternOrder[k], 1) \o RawLinks(text, k + 1)

\* x put behind every element that does not start after it
RECURSIVE InsertByStart(_, _)
InsertByStart(x, sorted) ==
    IF sorted = <<>> THEN <<x>>
    ELSE IF sorted[Len(sorted)].start <= x.start THEN Append(sorted, x)
    ELSE Append(InsertByStart(x, SubSeq(sorted, 1, Len(sorted) - 1)), sorted[Len(sorted)])

\* links.sort(key=lambda x: x['start']): a stable sort
RECURSIVE SortByStart(_)
SortByStart(links) ==
    IF links = <<>> THEN <<>>
    ELSE InsertByStart(links[Len(links)], SortByStart(SubSeq(links, 1, Len(links) - 1)))

RECURSIVE UniqueFrom(_, _, _)
UniqueFrom(links, i, seen_urls) ==
    IF i > Len(links) THEN <<>>
    ELSE IF links[i].url \in seen_urls THEN UniqueFrom(links, i + 1, seen_urls)
    ELSE <<links[i]>> \o UniqueFrom(links, i + 1, seen_urls \cup {links[i].url})

\* a link list handed on with its repetitions
keep_duplicates(links) == links

\* the loop over seen_urls: the first link of every url
unique_links(links) == UniqueFrom(links, 1, {})

\* LinkExtractor.extract_links(text)
extract_links(text) == unique_links(SortByStart(RawLinks(text, 1)))

\* what the servers do in one call: the urls whose request fails (no connection,
\* or an error status that raise_for_status turns into an exception)
HttpUrls == {"http://a/x.log", "http://b/y.log"}

\* LogFetcher._fetch_http(url): the request goes out once the arguments of
\* session.get are evaluated, and config.request_timeout is one of them
_fetch_http(url, settings, failing) ==
    IF ~settings
    THEN [raised |-> TRUE, error |-> AttributeError("AgentConfig", "request_timeout"),
          requests |-> <<>>]
    ELSE IF url \in failing
    THEN [raised |-> TRUE, error |-> OutsideError("http"), requests |-> <<url>>]
    ELSE [raised |-> FALSE, data |-> [url |-> url, size |-> 1], requests |-> <<url>>]

\* LogFetcher.fetch_content(url, link_type): None for whatever cannot be fetched
fetch_content(url, link_type, settings, failing) ==
    IF link_type = "http"
    THEN LET r == _fetch_http(url, settings, failing)
         IN  IF r.raised THEN [is_none |-> TRUE, requests |-> r.requests]
             ELSE [is_none |-> FALSE, data |-> r.data, requests |-> r.requests]
    ELSE [is_none |-> TRUE, requests |-> <<>>]

FetchResult(link, c) ==
    IF ~c.is_none
    THEN [source_link |-> link, fetched_data |-> c.data, fetch_success |-> TRUE]
    ELSE [source_link |-> link, error |-> "Failed to fetch content", fetch_success |-> FALSE]

\* the loop of fetch_from_user_input over links[i..]
RECURSIVE FetchLoop(_, _, _, _)
FetchLoop(links, i, settings, failing) ==
    IF i > Len(links) THEN [fetched_data |-> <<>>, requests |-> <<>>]
    ELSE LET c == fetch_content(links[i].url, links[i].type, settings, failing)
             rest == FetchLoop(links, i + 1, settings, failing)
         IN  [fetched_data |-> <<FetchResult(links[i], c)>> \o rest.fetched_data,
              requests |-> c.requests \o rest.requests]

\* LogFetcher.fetch_from_user_input(user_input)
fetch_from_user_input(user_input, settings, failing) ==
    FetchLoop(extract_links(user_input), 1, settings, failing)

UserInputs == UNION {[1..n -> Tokens] : n \in 0..MaxTokens}

FetchInit ==
    /\ fetch_settings \in BOOLEAN
    /\ fetch_call = [op |-> "__init__"]

FetchDefault ==
    /\ fetch_settings = FALSE
    /\ fetch_call = [op |-> "__init__"]

\* fetcher.fetch_from_user_input(user_input)
FetchFromUserInput ==
    \E user_input \in UserInputs, failing \in SUBSET HttpUrls :
        /\ fetch_call' = [op |-> "fetch_from_user_input", user_input |-> user_input,
                          failing |-> failing,
                          out |-> fetch_from_user_input(user_input, fetch_settings, failing)]
        /\ UNCHANGED fetch_settings

-----------------------------------------------------------------------------
(* The agent's operations *)

AltQueries(log) == Cardinality({i \in 1..Len(log) : log[i].query # "q1"})

\* the agent as __init__ leaves it; LogFetcher.__init__ reads config.auth_headers,
\* so the agent exists only for a config object that carries that attribute
AgentInit ==
    /\ conversation_history = <<>>
    /\ now = 0
    /\ history_log = <<>>
    /\ last_call = [op |-> "__init__"]

\* agent.chat(query, context)
Chat ==
    \E query \in Queries, env \in ChatEnvs :
        LET body == chat_try(conversation_history, now, query, None, env)
            out == chat_except(query, body)
        IN
        /\ now + Len(out.updates) <= MaxUpdates
        /\ conversation_history' = out.history
        /\ now' = now + Len(out.updates)
        /\ history_log' = history_log \o out.updates
        /\ last_call' = [op |-> "chat", query |-> query, env |-> env,
                         before |-> conversation_history,
                         body |-> body, out |-> out]
        /\ UNCHANGED <<tool_vars, fetch_vars, reason_vars>>

\* agent._update_conversation_history(query, response): step 6 of chat on its own
UpdateConversationHistory ==
    \E query \in Queries, response \in Responses :
        /\ now < MaxUpdates
        /\ query = "q1" \/ AltQueries(history_log) < MaxAltQueries
        /\ conversation_history' =
               _update_conversation_history(conversation_history, now, query, response)
        /\ now' = now + 1
        /\ history_log' = Append(history_log, HistoryEntry(now, query, response))
        /\ last_call' = [op |-> "_update_conversation_history"]
        /\ UNCHANGED <<tool_vars, fetch_vars, reason_vars>>

\* agent.clear_conversation_history()
ClearConversationHistory ==
    /\ conversation_history' = <<>>
    /\ history_log' = <<>>
    /\ last_call' = [op |-> "clear_conversation_history"]
    /\ UNCHANGED <<now, tool_vars, fetch_vars, reason_vars>>

-----------------------------------------------------------------------------
(* Specifications *)

\* the agent: chat, the history update and the clear, in any order
Init == AgentInit /\ ToolsDefault /\ FetchDefault /\ ReasonDefault

Next ==
    \/ Chat
    \/ UpdateConversationHistory
    \/ ClearConversationHistory

Spec == Init /\ [][Next]_vars

\* the tool registry: registrations and tool executions, in any order
ToolSpecInit == AgentInit /\ ToolsInit /\ FetchDefault /\ ReasonDefault

ToolNext ==
    \/ RegisterTool /\ UNCHANGED <<agent_vars, fetch_vars, reason_vars>>
    \/ ExecuteTool /\ UNCHANGED <<agent_vars, fetch_vars, reason_vars>>

ToolSpec == ToolSpecInit /\ [][ToolNext]_vars

\* execute_command called with any command line
CmdSpecInit == AgentInit /\ ToolsDefault /\ FetchDefault /\ ReasonDefault /\ ReasonDefault /\ FetchDefault

CmdNext == ExecuteCommand /\ UNCHANGED <<agent_vars, fetch_vars, reason_vars>>

CmdSpec == CmdSpecInit /\ [][CmdNext]_vars

\* the log fetcher called with any user input
FetchSpecInit == AgentInit /\ ToolsDefault /\ FetchInit /\ ReasonDefault

FetchNext == FetchFromUserInput /\ UNCHANGED <<agent_vars, tool_vars, reason_vars>>

FetchSpec == FetchSpecInit /\ [][FetchNext]_vars

\* the reasoning engine: reason called again and again, its loop step by step
ReasonSpecInit == AgentInit /\ ToolsDefault /\ FetchDefault /\ ReasonInit

ReasonNext ==
    \/ ReasonStart /\ UNCHANGED <<agent_vars, tool_vars, fetch_vars>>
    \/ ReasonIteration /\ UNCHANGED <<agent_vars, tool_vars, fetch_vars>>

ReasonSpec == ReasonSpecInit /\ [][ReasonNext]_vars

\* the same, with the loop never left hanging: every call the loop makes returns
ReasonLiveSpec ==
    ReasonSpec /\ WF_vars(ReasonIteration /\ UNCHANGED <<agent_vars, tool_vars, fetch_vars>>)

-----------------------------------------------------------------------------
(* Properties *)

SuccessKeys ==
    {"query", "response", "fetched_logs", "context", "reasoning", "relevant_knowledge"}
ErrorKeys == {"query", "error", "response"}

\* C1: when fetching, the knowledge search, the reasoning and the LLM all work,
\* chat runs its six steps, returns a result with 'response', 'fetched_logs',
\* 'context', 'reasoning' and 'relevant_knowledge' and no 'error', and the
\* history holds one more entry, carrying that query and that response.
C1_ChatRunsSixSteps ==
    (last_call.op = "chat" /\ EnvAllWork(last_call.env)) =>
        /\ ~last_call.out.raised
        /\ DOMAIN last_call.out.value = SuccessKeys
        /\ last_call.out.value.response = last_call.env.llm_response
        /\ conversation_history # <<>>
        /\ conversation_history[Len(conversation_history)].query = last_call.query
        /\ conversation_history[Len(conversation_history)].response
               = last_call.out.value.response
        /\ SubSeq(conversation_history, 1, Len(conversation_history) - 1)
               = LastN(last_call.before, HistoryCap - 1)

\* C2: the history is the last min(n, 20) entries handed to it since the last
\* clear, in the order they came; so it never holds more than 20, and only the
\* oldest are dropped.
C2_HistoryIsLastTwenty ==
    /\ conversation_history = LastN(history_log, HistoryCap)
    /\ Len(conversation_history) <= HistoryCap

\* C2 at work: more than 20 updates since the last clear, the oldest gone
C2_OldestDropped ==
    /\ last_call.op = "_update_conversation_history"
    /\ Len(history_log) > HistoryCap
    /\ Len(conversation_history) = HistoryCap
    /\ history_log[1].query = "q2"
    /\ conversation_history[1] = history_log[Len(history_log) - HistoryCap + 1]

\* C3: chat never raises; when a step of the pipeline raises, chat returns a
\* dict of 'query', 'error' (the exception) and the apology 'response', and the
\* history is what it was before the call.
C3_ChatReturnsErrorDict ==
    last_call.op = "chat" =>
        /\ ~last_call.out.raised
        /\ last_call.body.raised =>
             /\ DOMAIN last_call.out.value = ErrorKeys
             /\ last_call.out.value.query = last_call.query
             /\ last_call.out.value.error = last_call.body.error
             /\ last_call.out.value.response = Apology(last_call.body.error)
             /\ conversation_history = last_call.before

\* C3 at work: an outside call raised in a chat on a history that holds entries
C3_ErrorWithHistory ==
    /\ last_call.op = "chat"
    /\ last_call.env.raises = "search"
    /\ last_call.body.raised
    /\ last_call.body.error = OutsideError("search")
    /\ Len(last_call.before) >= 2
    /\ "error" \in DOMAIN last_call.out.value

\* C4: reason terminates, with at most max_reasoning_steps LLM calls and at most
\* max_reasoning_steps tool executions, whatever the LLM answers.
C4_ReasonBounded ==
    /\ [](rs.llm_calls <= max_reasoning_steps /\ rs.tool_execs <= max_reasoning_steps)
    /\ (rs.pc = "loop") ~> (rs.pc \in {"returned", "raised"})

\* C4 at work: the default bound used up by function calls
C4_BoundAttained ==
    /\ max_reasoning_steps = DefaultMaxReasoningSteps
    /\ rs.pc = "returned"
    /\ rs.llm_calls = max_reasoning_steps
    /\ rs.tool_execs = max_reasoning_steps

C6_ExecuteToolContract ==
    tool_call.op = "execute_tool" =>
        LET out == tool_call.out IN
        /\ ~out.raised
        /\ tool_call.tool_name \notin DOMAIN tools =>
             /\ DOMAIN out.value = {"error"}
             /\ out.invoked = <<>>
        /\ tool_call.tool_name \in DOMAIN tools =>
             LET fn == call_function(tools[tool_call.tool_name],
                                     tool_call.kwargs, tool_call.world)
             IN  /\ out.invoked = <<tools[tool_call.tool_name]>>
                 /\ fn.raised => out.value = [success |-> FALSE, error |-> fn.error]
                 /\ ~fn.raised => out.value = [success |-> TRUE, result |-> fn.value]

\* C6 at work: a registered custom tool raised, and an unregistered name was asked for
C6_ToolRaised ==
    /\ tool_call.op = "execute_tool"
    /\ tool_call.tool_name = "custom_tool"
    /\ "custom_tool" \in DOMAIN tools
    /\ tool_call.world.fn_raises
    /\ tool_call.out.value = [success |-> FALSE, error |-> OutsideError("custom_fn")]

\* the words of the claim
DangerousWords ==
    { <<"r", "m">>, <<"d", "e", "l">>, <<"f", "o", "r", "m", "a", "t">>,
      <<"s", "h", "u", "t", "d", "o", "w", "n">>, <<"r", "e", "b", "o", "o", "t">> }
NamesDangerousWord(command) == \E w \in DangerousWords : Contains(w, Lower(command))

\* C7: a command whose lower-cased text contains rm, del, format, shutdown or
\* reboot starts no subprocess and gets the refusal; a subprocess is started
\* only for a command that contains none of them.
C7_DangerousNeverRuns ==
    tool_call.op = "execute_command" =>
        /\ ~tool_call.out.raised
        /\ NamesDangerousWord(tool_call.command) =>
             /\ tool_call.out.spawned = <<>>
             /\ tool_call.out.value = Refusal
        /\ tool_call.out.spawned # <<>> =>
             /\ ~NamesDangerousWord(tool_call.command)
             /\ tool_call.out.spawned = <<tool_call.command>>

\* C7 at work: a dangerous word in capitals is refused
C7_UpperCaseRefused ==
    /\ tool_call.op = "execute_command"
    /\ tool_call.command = <<"R", "M", " ">>
    /\ tool_call.out.spawned = <<>>
    /\ tool_call.out.value = Refusal

Occurrences(s, x) == Cardinality({i \in 1..Len(s) : s[i] = x})

\* C8: within one fetch_from_user_input call every extracted link is attempted
\* once at most, with one HTTP request at most, and a fetch that failed is
\* recorded as a failure and not tried again.
C8_EachLinkOnce ==
    fetch_call.op = "fetch_from_user_input" =>
        LET out == fetch_call.out
            raw == RawLinks(fetch_call.user_input, 1)
            urls == {raw[i].url : i \in 1..Len(raw)}
            entries == out.fetched_data
        IN  /\ \A u \in urls \cup HttpUrls : Occurrences(out.requests, u) <= 1
            /\ \A i \in 1..Len(out.requests) : out.requests[i] \in urls
            /\ \A u \in urls :
                 Cardinality({i \in 1..Len(entries) : entries[i].source_link.url = u}) = 1
            /\ Len(entries) = Cardinality(urls)
            /\ \A i \in 1..Len(out.requests) :
                 out.requests[i] \in fetch_call.failing =>
                    \A j \in 1..Len(entries) :
                        entries[j].source_link.url = out.requests[i] =>
                            ~entries[j].fetch_success

\* C8 at work: a url given twice whose request fails is requested once
C8_RepeatedUrlFailsOnce ==
    /\ fetch_call.op = "fetch_from_user_input"
    /\ fetch_settings
    /\ fetch_call.user_input = <<"http://a/x.log", "http://a/x.log">>
    /\ "http://a/x.log" \in fetch_call.failing
    /\ fetch_call.out.requests = <<"http://a/x.log">>
    /\ ~fetch_call.out.fetched_data[1].fetch_success

====
